---- MODULE Spec2Model ----
(***************************************************************************)
(* Model of the Qt5 front end of rtop (src/Qt5/dialog.cpp, dialog.h): a    *)
(* dialog whose QTimer calls Dialog::updateDataFromRust every 1000 ms; the *)
(* slot asks the metrics provider for a JSON payload, releases the buffer, *)
(* decodes the text and hands thirteen values to the widgets.              *)
(*                                                                         *)
(* DisplayState is modelled as the last argument handed to each widget's   *)
(* setValue / setText; the widget classes themselves are generated from    *)
(* dialog.ui and are not modelled beyond a presentation layer that renders *)
(* the display when the event loop notifies it.                            *)
(*                                                                         *)
(* Numbers.  A JSON number (a C++ double) is modelled as a decimal         *)
(* [m, e] standing for m * 10^e, kept normalised (m carries no trailing    *)
(* zero, zero is [0, 0]).  Division by a power of ten is then exact; the   *)
(* inputs enumerated below are chosen so that the double computed by the   *)
(* program formats to the same digits (no value is a rounding tie).        *)
(***************************************************************************)
EXTENDS Integers, Sequences, FiniteSets, TLC

VARIABLES
    timerActive,   \* QTimer::isActive() of Dialog::timer
    remaining,     \* ms until the timer's next expiry (0: expired, not yet delivered)
    now,           \* ms since the constructor returned, saturating at MaxNow
    stack,         \* activations of updateDataFromRust, innermost last
    display,       \* DisplayState: last value handed to each widget
    shown,         \* the DisplayState the presentation layer last rendered
    last,          \* payload returned by the most recent provider call
    repeated,      \* the most recent call returned the same payload as the one before
    calls,         \* number of calls of get_system_metrics_json
    allocs,        \* number of non-null buffers the provider returned
    frees,         \* number of calls of free_string
    writes,        \* number of setValue / setText calls made so far
    copies,        \* number of buffers copied into a QString before release
    staleReads,    \* number of reads of a buffer after its release
    failed,        \* number of cycles whose fetch failed (history)
    logged         \* number of failure events written to the log (qDebug)

vars == <<timerActive, remaining, now, stack, display, shown, last, repeated,
          calls, allocs, frees, writes, copies, staleReads, failed, logged>>

----------------------------------------------------------------------------
(* Bounds of the model *)

MaxCycles == 3

MaxNow == 2000

TimeSteps == {500, 1000}

(* timer->start(1000) *)
Interval == 1000

----------------------------------------------------------------------------
(* Decimal numbers *)

RECURSIVE Pow10(_)
Pow10(n) == IF n <= 0 THEN 1 ELSE 10 * Pow10(n - 1)

Abs(n) == IF n < 0 THEN -n ELSE n

Min(a, b) == IF a < b THEN a ELSE b

Max(a, b) == IF a > b THEN a ELSE b

RECURSIVE Norm(_)
Norm(x) ==
    IF x.m = 0 THEN [m |-> 0, e |-> 0]
    ELSE IF x.m % 10 = 0 THEN Norm([m |-> x.m \div 10, e |-> x.e + 1])
    ELSE x

Num(m, e) == Norm([m |-> m, e |-> e])

Zero == Num(0, 0)

(* x / 10^k, as in "toDouble() / 1000000.0" and "toDouble() / 1000.0" *)
DivPow10(x, k) == Norm([m |-> x.m, e |-> x.e - k])

(* |x| * 10^prec rounded to the nearest integer *)
Scaled(x, prec) ==
    LET s == x.e + prec
        a == Abs(x.m)
    IN  IF s >= 0 THEN a * Pow10(s)
        ELSE (a + (Pow10(-s) \div 2)) \div Pow10(-s)

RECURSIVE ZeroPad(_, _)
ZeroPad(str, width) ==
    IF Len(str) >= width THEN str ELSE ZeroPad("0" \o str, width)

(* QString::number(x, 'f', prec) *)
NumberF(x, prec) ==
    LET s    == Scaled(x, prec)
        ip   == s \div Pow10(prec)
        fp   == s % Pow10(prec)
        sign == IF x.m < 0 THEN "-" ELSE ""
    IN  sign \o ToString(ip) \o
        (IF prec > 0 THEN "." \o ZeroPad(ToString(fp), prec) ELSE "")

----------------------------------------------------------------------------
(* JSON values, objects and documents (QJsonValue, QJsonObject,            *)
(* QJsonDocument)                                                          *)

Undefined == [t |-> "Undefined", v |-> [m |-> 0, e |-> 0]]

Double(m, e) == [t |-> "Double", v |-> Num(m, e)]

String == [t |-> "String", v |-> [m |-> 0, e |-> 0]]

(* QJsonValue::toDouble(): the number, 0.0 for any other type *)
toDouble(val) == IF val.t = "Double" THEN val.v ELSE Zero

(* QJsonValue::toInt(): the number if it is integer-valued, else 0 *)
toInt(val) ==
    IF val.t = "Double" /\ val.v.e >= 0 THEN val.v.m * Pow10(val.v.e) ELSE 0

EmptyObject == [k \in {} |-> Undefined]

(* QJsonObject::operator[](key): Undefined when the key is missing *)
Value(obj, key) == IF key \in DOMAIN obj THEN obj[key] ELSE Undefined

Fields ==
    {"cpu_usage", "cpu_freq", "gpu_usage", "gpu_freq", "npu_usage", "npu_freq",
     "rga_usage", "rga_aclk_freq", "memory_usage", "swap_usage",
     "temperature", "fan_state"}

FreqFields == {"cpu_freq", "gpu_freq", "npu_freq", "rga_aclk_freq"}

UsageFields ==
    {"cpu_usage", "gpu_usage", "npu_usage", "rga_usage", "memory_usage",
     "swap_usage"}

----------------------------------------------------------------------------
(* Payloads the provider can return *)

(* the end-to-end scenario of the specification, completed *)
ProfileScenario ==
    [cpu_usage |-> Double(372, -1), cpu_freq |-> Double(18, 8),
     gpu_usage |-> Double(50, 0), gpu_freq |-> Double(1, 9),
     npu_usage |-> Double(125, -1), npu_freq |-> Double(1, 9),
     rga_usage |-> Double(3, 0), rga_aclk_freq |-> Double(6, 8),
     memory_usage |-> Double(643, -1), swap_usage |-> Double(1, 0),
     temperature |-> Double(523, 2), fan_state |-> Double(2, 0)]

(* every frequency 2,400,000,000; temperature 45500 *)
ProfileHigh ==
    [cpu_usage |-> Double(100, 0), cpu_freq |-> Double(24, 8),
     gpu_usage |-> Double(99, 0), gpu_freq |-> Double(24, 8),
     npu_usage |-> Double(80, 0), npu_freq |-> Double(24, 8),
     rga_usage |-> Double(70, 0), rga_aclk_freq |-> Double(24, 8),
     memory_usage |-> Double(90, 0), swap_usage |-> Double(10, 0),
     temperature |-> Double(455, 2), fan_state |-> Double(3, 0)]

(* every field reported, every value zero *)
ProfileZero == [k \in Fields |-> Double(0, 0)]

(* values outside the documented ranges and of unexpected type *)
ProfileOdd ==
    [cpu_usage |-> Double(150, 0), cpu_freq |-> Double(1416, 3),
     gpu_usage |-> Double(-5, 0), gpu_freq |-> Double(18, 5),
     npu_usage |-> String, npu_freq |-> Double(1, 0),
     rga_usage |-> Double(1005, -1), rga_aclk_freq |-> String,
     memory_usage |-> Double(-1, -1), swap_usage |-> Double(2, 2),
     temperature |-> Double(-4556, 1), fan_state |-> Double(27, -1)]

Profiles == {ProfileScenario, ProfileHigh, ProfileZero, ProfileOdd}

ScenarioFields == {"cpu_usage", "cpu_freq", "temperature", "fan_state"}

(* every profile with all fields, with none and with the scenario's four;  *)
(* the scenario also with each single field left out                       *)
PresenceSets == {Fields, {}, ScenarioFields}

Snapshots ==
    {[k \in S |-> pr[k]] : pr \in Profiles, S \in PresenceSets}
    \cup {[k \in Fields \ {f} |-> ProfileScenario[k]] : f \in Fields}

(* text of a payload: "", text that is not JSON, a JSON array, a JSON object *)
Texts ==
    {[kind |-> k, obj |-> EmptyObject] : k \in {"empty", "garbage", "array"}}
    \cup {[kind |-> "object", obj |-> o] : o \in Snapshots}

NullPtr == [ptr |-> "null", enc |-> "none", text |-> [kind |-> "empty", obj |-> EmptyObject]]

Payloads == {NullPtr} \cup {[ptr |-> "buf", enc |-> "utf8", text |-> t] : t \in Texts}

(* QString::fromUtf8 of the bytes of a C string *)
fromUtf8(bytes) == [enc |-> "utf16", text |-> bytes.text]

(* QString::toUtf8() *)
toUtf8(qstr) == [enc |-> "utf8", text |-> qstr.text]

(* QJsonDocument::fromJson(QByteArray): a null document unless the text is  *)
(* a JSON array or object                                                  *)
fromJson(bytes) ==
    IF bytes.enc = "utf8" /\ bytes.text.kind \in {"array", "object"}
    THEN [kind |-> bytes.text.kind, obj |-> bytes.text.obj]
    ELSE [kind |-> "null", obj |-> EmptyObject]

(* QJsonDocument::object(): empty unless the document holds an object *)
object(doc) == IF doc.kind = "object" THEN doc.obj ELSE EmptyObject

----------------------------------------------------------------------------
(* Field transforms and the display *)

(* the widgets as ui->setupUi(this) leaves them *)
InitDisplay ==
    [barCPU1 |-> Zero, freqCPU1 |-> "", barGPU |-> Zero, freqGPU |-> "",
     barNPU1 |-> Zero, freqNPU1 |-> "", barRGA1 |-> Zero, freqRGA1 |-> "",
     barMem |-> Zero, barSwap |-> Zero, barTemp |-> Zero, freqTemp |-> "",
     barFan |-> 0]

(* obj["..._usage"].toDouble() *)
UsageGauge(val) == toDouble(val)

FreqLabelGiga(val) == NumberF(DivPow10(toDouble(val), 9), 2) \o " GHz"

(* QString::number(obj["..._freq"].toDouble() / 1000000.0, 'f', 2) + " GHz" *)
FreqLabel(val) == NumberF(DivPow10(toDouble(val), 6), 2) \o " GHz"

(* obj["temperature"].toDouble() / 1000.0 *)
TempGauge(val) == DivPow10(toDouble(val), 3)

TempLabelTwoDecimals(val) == NumberF(DivPow10(toDouble(val), 3), 2) \o " °C"

(* QString::number(obj["temperature"].toDouble() / 1000.0, 'f', 1) + " °C" *)
TempLabel(val) == NumberF(DivPow10(toDouble(val), 3), 1) \o " °C"

(* obj["fan_state"].toInt() *)
FanGauge(val) == toInt(val)

MapFieldsAccumulate(d, obj) ==
    [barCPU1  |-> UsageGauge(Value(obj, "cpu_usage")),
     freqCPU1 |-> FreqLabel(Value(obj, "cpu_freq")),
     barGPU   |-> UsageGauge(Value(obj, "gpu_usage")),
     freqGPU  |-> FreqLabel(Value(obj, "gpu_freq")),
     barNPU1  |-> UsageGauge(Value(obj, "npu_usage")),
     freqNPU1 |-> FreqLabel(Value(obj, "npu_freq")),
     barRGA1  |-> UsageGauge(Value(obj, "rga_usage")),
     freqRGA1 |-> FreqLabel(Value(obj, "rga_aclk_freq")),
     barMem   |-> UsageGauge(Value(obj, "memory_usage")),
     barSwap  |-> UsageGauge(Value(obj, "swap_usage")),
     barTemp  |-> TempGauge(Value(obj, "temperature")),
     freqTemp |-> TempLabel(Value(obj, "temperature")),
     barFan   |-> d.barFan + FanGauge(Value(obj, "fan_state"))]

MapFieldsPresentOnly(d, obj) ==
    [barCPU1  |-> IF "cpu_usage" \in DOMAIN obj
                  THEN UsageGauge(obj["cpu_usage"]) ELSE d.barCPU1,
     freqCPU1 |-> IF "cpu_freq" \in DOMAIN obj
                  THEN FreqLabel(obj["cpu_freq"]) ELSE d.freqCPU1,
     barGPU   |-> IF "gpu_usage" \in DOMAIN obj
                  THEN UsageGauge(obj["gpu_usage"]) ELSE d.barGPU,
     freqGPU  |-> IF "gpu_freq" \in DOMAIN obj
                  THEN FreqLabel(obj["gpu_freq"]) ELSE d.freqGPU,
     barNPU1  |-> IF "npu_usage" \in DOMAIN obj
                  THEN UsageGauge(obj["npu_usage"]) ELSE d.barNPU1,
     freqNPU1 |-> IF "npu_freq" \in DOMAIN obj
                  THEN FreqLabel(obj["npu_freq"]) ELSE d.freqNPU1,
     barRGA1  |-> IF "rga_usage" \in DOMAIN obj
                  THEN UsageGauge(obj["rga_usage"]) ELSE d.barRGA1,
     freqRGA1 |-> IF "rga_aclk_freq" \in DOMAIN obj
                  THEN FreqLabel(obj["rga_aclk_freq"]) ELSE d.freqRGA1,
     barMem   |-> IF "memory_usage" \in DOMAIN obj
                  THEN UsageGauge(obj["memory_usage"]) ELSE d.barMem,
     barSwap  |-> IF "swap_usage" \in DOMAIN obj
                  THEN UsageGauge(obj["swap_usage"]) ELSE d.barSwap,
     barTemp  |-> IF "temperature" \in DOMAIN obj
                  THEN TempGauge(obj["temperature"]) ELSE d.barTemp,
     freqTemp |-> IF "temperature" \in DOMAIN obj
                  THEN TempLabel(obj["temperature"]) ELSE d.freqTemp,
     barFan   |-> IF "fan_state" \in DOMAIN obj
                  THEN FanGauge(obj["fan_state"]) ELSE d.barFan]

(* the thirteen setValue / setText calls, d the display before them *)
MapFields(d, obj) ==
    [barCPU1  |-> UsageGauge(Value(obj, "cpu_usage")),
     freqCPU1 |-> FreqLabel(Value(obj, "cpu_freq")),
     barGPU   |-> UsageGauge(Value(obj, "gpu_usage")),
     freqGPU  |-> FreqLabel(Value(obj, "gpu_freq")),
     barNPU1  |-> UsageGauge(Value(obj, "npu_usage")),
     freqNPU1 |-> FreqLabel(Value(obj, "npu_freq")),
     barRGA1  |-> UsageGauge(Value(obj, "rga_usage")),
     freqRGA1 |-> FreqLabel(Value(obj, "rga_aclk_freq")),
     barMem   |-> UsageGauge(Value(obj, "memory_usage")),
     barSwap  |-> UsageGauge(Value(obj, "swap_usage")),
     barTemp  |-> TempGauge(Value(obj, "temperature")),
     freqTemp |-> TempLabel(Value(obj, "temperature")),
     barFan   |-> FanGauge(Value(obj, "fan_state"))]

ReleaseIfDecoded(json_str) ==
    IF json_str.ptr /= "null" /\ json_str.text.kind = "object" THEN 1 ELSE 0

(* number of free_string calls made for the pointer the provider returned *)
ReleaseBuffer(json_str) == IF json_str.ptr /= "null" THEN 1 ELSE 0

BufferAccessesDecodeRaw(json_str) ==
    IF json_str.ptr /= "null" THEN <<"read", "free", "read">> ELSE << >>

(* the slot's accesses to the provider's buffer, in order: fromUtf8 reads  *)
(* it into json_qstr, free_string releases it; the decoding that follows   *)
(* reads json_qstr, not the buffer                                         *)
BufferAccesses(json_str) ==
    IF json_str.ptr /= "null" THEN <<"read", "free">> ELSE << >>

(* number of reads in ops that come after a release *)
StaleReads(ops) ==
    Cardinality({j \in 1..Len(ops) :
                    ops[j] = "read" /\ \E i \in 1..(j - 1) : ops[i] = "free"})

(* number of buffers in ops read before their release *)
LiveCopies(ops) ==
    IF \E j \in 1..Len(ops) :
           ops[j] = "read" /\ \A i \in 1..(j - 1) : ops[i] /= "free"
    THEN 1 ELSE 0

(* number of setValue / setText calls the slot makes for json_str *)
WriteCount(json_str) == IF json_str.ptr /= "null" THEN 13 ELSE 0

(* body of updateDataFromRust once the provider has returned json_str *)
UpdateDisplay(d, json_str) ==
    IF json_str.ptr /= "null"
    THEN LET json_qstr == fromUtf8(json_str)
             doc       == fromJson(toUtf8(json_qstr))
             obj       == object(doc)
         IN  MapFields(d, obj)
    ELSE d

(* the widgets in the order in which lines 33-51 write them *)
WriteOrder ==
    <<"barCPU1", "freqCPU1", "barGPU", "freqGPU", "barNPU1", "freqNPU1",
      "barRGA1", "freqRGA1", "barMem", "barSwap", "barTemp", "freqTemp",
      "barFan">>

(* the display after the first k writes of the slot *)
WritesDone(d, json_str, k) ==
    LET full == UpdateDisplay(d, json_str)
    IN  [w \in DOMAIN d |->
            IF \E i \in 1..k : WriteOrder[i] = w THEN full[w] ELSE d[w]]

YieldAfterEveryWrite == 1..(Len(WriteOrder) - 1)

(* the writes after which the slot hands control back to the event loop    *)
(* before it has finished: none, lines 33-51 run without interruption on   *)
(* the thread of the dialog                                                *)
YieldPoints == {}

----------------------------------------------------------------------------
(* The timer and the event loop *)

TimerStartZero == [active |-> TRUE, remaining |-> 0]

(* timer->start(1000) in the constructor *)
TimerAtStart == [active |-> TRUE, remaining |-> Interval]

TimerSingleShot == [active |-> FALSE, remaining |-> 0]

(* a repeating QTimer (the default, never made single-shot) after it fires *)
TimerAfterTimeout == [active |-> TRUE, remaining |-> Interval]

CanDispatchReentrant(stk) == TRUE

(* the event loop delivers timeout() only when no slot is running: the     *)
(* connection is direct within one thread and the slot never re-enters the *)
(* event loop                                                              *)
CanDispatch(stk) == Len(stk) = 0

(* outcome of a fetch in the vocabulary of the specification *)
Outcome(p) ==
    IF p.ptr = "null" \/ p.text.kind = "empty" THEN "ProviderUnavailable"
    ELSE IF p.text.kind /= "object" THEN "MalformedPayload"
    ELSE "Snapshot"

Init ==
    /\ timerActive = TimerAtStart.active
    /\ remaining = TimerAtStart.remaining
    /\ now = 0
    /\ stack = << >>
    /\ display = InitDisplay
    /\ shown = InitDisplay
    /\ last = NullPtr
    /\ repeated = FALSE
    /\ calls = 0
    /\ allocs = 0
    /\ frees = 0
    /\ writes = 0
    /\ copies = 0
    /\ staleReads = 0
    /\ failed = 0
    /\ logged = 0

(* dt milliseconds pass; an expired timer stays expired until delivered *)
Advance(dt) ==
    /\ now' = Min(now + dt, MaxNow)
    /\ remaining' = IF timerActive THEN Max(remaining - dt, 0) ELSE remaining
    /\ UNCHANGED <<timerActive, stack, display, shown, last, repeated, calls,
                   allocs, frees, writes, copies, staleReads, failed, logged>>

(* the event loop delivers timeout(): updateDataFromRust is entered and    *)
(* calls get_system_metrics_json                                           *)
Timeout ==
    /\ timerActive
    /\ remaining = 0
    /\ CanDispatch(stack)
    /\ calls < MaxCycles
    /\ timerActive' = TimerAfterTimeout.active
    /\ remaining' = TimerAfterTimeout.remaining
    /\ stack' = Append(stack, [pc |-> "get_system_metrics_json"])
    /\ calls' = calls + 1
    /\ UNCHANGED <<now, display, shown, last, repeated, allocs, frees, writes,
                   copies, staleReads, failed, logged>>

(* the provider returns json_str; the slot runs to its end *)
ProviderReturn(json_str) ==
    /\ Len(stack) > 0
    /\ stack[Len(stack)].pc = "get_system_metrics_json"
    /\ allocs' = allocs + (IF json_str.ptr /= "null" THEN 1 ELSE 0)
    /\ frees' = frees + ReleaseBuffer(json_str)
    /\ writes' = writes + WriteCount(json_str)
    /\ copies' = copies + LiveCopies(BufferAccesses(json_str))
    /\ staleReads' = staleReads + StaleReads(BufferAccesses(json_str))
    /\ display' = UpdateDisplay(display, json_str)
    /\ shown' \in {shown} \cup
                  {WritesDone(display, json_str, k) : k \in YieldPoints}
    /\ last' = json_str
    /\ repeated' = (calls > 1 /\ json_str = last)
    /\ failed' = failed + (IF Outcome(json_str) /= "Snapshot" THEN 1 ELSE 0)
    /\ stack' = SubSeq(stack, 1, Len(stack) - 1)
    /\ UNCHANGED <<timerActive, remaining, now, calls, logged>>

(* the presentation layer renders the display; it is notified through the *)
(* event loop, so only when no slot is running                             *)
Paint ==
    /\ CanDispatch(stack)
    /\ shown /= display
    /\ shown' = display
    /\ UNCHANGED <<timerActive, remaining, now, stack, display, last, repeated,
                   calls, allocs, frees, writes, copies, staleReads, failed,
                   logged>>

Next ==
    \/ \E dt \in TimeSteps : Advance(dt)
    \/ Timeout
    \/ \E json_str \in Payloads : ProviderReturn(json_str)
    \/ Paint

Spec == Init /\ [][Next]_vars

(* one payload of every outcome: enough to exercise the scheduler *)
LivePayloads ==
    {p \in Payloads :
        \/ p.text.kind /= "object"
        \/ p.text.obj = ProfileScenario
        \/ p.text.obj = [k \in ScenarioFields |-> ProfileHigh[k]]}

LiveNext ==
    \/ \E dt \in TimeSteps : Advance(dt)
    \/ Timeout
    \/ \E json_str \in LivePayloads : ProviderReturn(json_str)
    \/ Paint

(* time passes, the event loop runs, and the provider call returns *)
LiveSpec ==
    /\ Init /\ [][LiveNext]_vars
    /\ WF_vars(\E dt \in TimeSteps : Advance(dt))
    /\ WF_vars(Timeout)
    /\ WF_vars(\E json_str \in LivePayloads : ProviderReturn(json_str))

----------------------------------------------------------------------------
(* Vocabulary of the properties *)

(* the step in which a cycle ends: updateDataFromRust returns *)
CycleEnds == Len(stack') < Len(stack)

(* the display entries fed by a snapshot field *)
FieldOutputs(f) ==
    CASE f = "cpu_usage"     -> {"barCPU1"}
      [] f = "cpu_freq"      -> {"freqCPU1"}
      [] f = "gpu_usage"     -> {"barGPU"}
      [] f = "gpu_freq"      -> {"freqGPU"}
      [] f = "npu_usage"     -> {"barNPU1"}
      [] f = "npu_freq"      -> {"freqNPU1"}
      [] f = "rga_usage"     -> {"barRGA1"}
      [] f = "rga_aclk_freq" -> {"freqRGA1"}
      [] f = "memory_usage"  -> {"barMem"}
      [] f = "swap_usage"    -> {"barSwap"}
      [] f = "temperature"   -> {"barTemp", "freqTemp"}
      [] f = "fan_state"     -> {"barFan"}

(* the snapshot decoded from the most recent payload *)
LastObject == last.text.obj

LastDecoded == last.ptr = "buf" /\ Outcome(last) = "Snapshot"

----------------------------------------------------------------------------
(* C1: a cycle whose fetch fails (null or empty payload, or a payload that *)
(* is not a JSON object) leaves every gauge and label as it was.           *)
C1_NoMutationOnFailure ==
    [][(CycleEnds /\ Outcome(last') /= "Snapshot") => display' = display]_vars

(* C2: a cycle that decodes a snapshot leaves the gauge and label of every *)
(* field absent from the snapshot unchanged.                               *)
C2_AbsentFieldsUnchanged ==
    [][(CycleEnds /\ Outcome(last') = "Snapshot") =>
          \A f \in Fields \ DOMAIN last'.text.obj :
              \A w \in FieldOutputs(f) : display'[w] = display[w]]_vars

(* C3: every call releases the buffer exactly once if one was returned, on *)
(* the decode-success and the decode-failure path, and never releases when *)
(* none was returned; releases and returned buffers stay equal in number.  *)
C3_ReleasedExactlyOnce ==
    /\ [](frees = allocs)
    /\ [][CycleEnds =>
            frees' - frees = (IF last'.ptr = "null" THEN 0 ELSE 1)]_vars

C3_Witness ==
    /\ calls = 3 /\ Len(stack) = 0
    /\ allocs = 2 /\ frees = 2
    /\ failed = 2 /\ Outcome(last) = "MalformedPayload"

(* C4: whatever the outcome of a cycle, the slot returns to the event loop *)
(* with the timer still armed, and a further cycle eventually starts.      *)
C4_SchedulerKeepsTicking ==
    /\ [][CycleEnds => (Len(stack') = 0 /\ timerActive')]_vars
    /\ [](Len(stack) = 0 => timerActive)
    /\ (Len(stack) = 0 /\ calls \in 1..(MaxCycles - 1)) ~> (Len(stack) = 1)

C4_Witness ==
    /\ calls = 3 /\ Len(stack) = 1 /\ timerActive
    /\ failed = 2 /\ allocs = 1 /\ Outcome(last) = "MalformedPayload"

(* C5: at most one activation of the slot exists at any time, also when    *)
(* the timer expires while a fetch is still running.                       *)
C5_SingleFlight == Len(stack) <= 1

C5_Witness ==
    /\ Len(stack) = 1 /\ calls = 1
    /\ timerActive /\ remaining = 0 /\ now >= 2 * Interval

(* C6: no provider call happens before one interval has passed since       *)
(* start, and until the first tick the timer is armed to expire exactly    *)
(* one interval after start.                                               *)
C6_NoFetchBeforeFirstTick ==
    /\ now < Interval => (calls = 0 /\ Len(stack) = 0)
    /\ (calls = 0 /\ now <= Interval) =>
           (timerActive /\ remaining = Interval - now)

C6_Witness ==
    now > 0 /\ now < Interval /\ calls = 0 /\ remaining = Interval - now

(* C7: the number of failure events recorded equals the number of failed   *)
(* cycles.                                                                 *)
C7_FailureEventsRecorded == logged = failed

(* C8: after a cycle that decoded a snapshot, a frequency field present    *)
(* with 2,400,000,000 shows "2.40 GHz" and one present with 0 shows        *)
(* "0.00 GHz".                                                             *)
C8_FrequencyExamples ==
    LastDecoded =>
        \A f \in FreqFields \cap DOMAIN LastObject :
            \A w \in FieldOutputs(f) :
                /\ LastObject[f] = Double(24, 8) => display[w] = "2.40 GHz"
                /\ LastObject[f] = Double(0, 0) => display[w] = "0.00 GHz"

(* C9: after a cycle that decoded a snapshot with a temperature t          *)
(* (integer millidegrees), the gauge holds t/1000, the label is the number *)
(* q/10 nearest to t/1000 followed by " °C", and 45500 gives 45.5 and      *)
(* "45.5 °C".                                                              *)
C9_Temperature ==
    (LastDecoded /\ "temperature" \in DOMAIN LastObject
                 /\ LastObject["temperature"].t = "Double"
                 /\ LastObject["temperature"].v.e >= 0) =>
        LET t == toInt(LastObject["temperature"])
            a == Abs(t)
        IN  /\ DivPow10(display.barTemp, -3) = Num(t, 0)
            /\ \E q \in {a \div 100, (a \div 100) + 1} :
                 /\ 2 * Abs(100 * q - a) <= 100
                 /\ display.freqTemp =
                      (IF t < 0 THEN "-" ELSE "") \o ToString(q \div 10)
                         \o "." \o ToString(q % 10) \o " °C"
            /\ t = 45500 =>
                 (display.barTemp = Num(455, -1) /\ display.freqTemp = "45.5 °C")

C9_Witness ==
    /\ LastDecoded /\ "temperature" \in DOMAIN LastObject
    /\ LastObject["temperature"] = Double(455, 2)
    /\ display.freqTemp = "45.5 °C"

(* C10: a cycle that decodes the same snapshot as the cycle before it      *)
(* leaves the display as that cycle left it.                               *)
C10_Idempotent ==
    [][(CycleEnds /\ repeated' /\ Outcome(last') = "Snapshot")
          => display' = display]_vars

C10_Witness ==
    /\ repeated /\ LastDecoded /\ Len(stack) = 0
    /\ DOMAIN LastObject = ScenarioFields
    /\ display.barFan = 2

(* C11: after a cycle that decoded a snapshot with a numeric fan_state v,  *)
(* the fan gauge holds v truncated toward zero (2 for 2.7, -1 for -1.5).   *)
C11_FanTruncated ==
    (LastDecoded /\ "fan_state" \in DOMAIN LastObject
                 /\ LastObject["fan_state"].t = "Double") =>
        LET v == LastObject["fan_state"].v
            trunc == IF v.e >= 0 THEN v.m * Pow10(v.e)
                     ELSE (IF v.m < 0 THEN -1 ELSE 1)
                              * (Abs(v.m) \div Pow10(-v.e))
        IN  display.barFan = trunc

(* the displays in which all thirteen entries come from one cycle *)
CompleteDisplays ==
    {InitDisplay} \cup
    {MapFields(InitDisplay, o) : o \in Snapshots \cup {EmptyObject}}

UsageGauges == {"barCPU1", "barGPU", "barNPU1", "barRGA1", "barMem", "barSwap"}

(* 0 <= x <= 100 for a decimal x *)
InPercentRange(x) ==
    /\ x.m >= 0
    /\ IF x.e >= 0 THEN x.m * Pow10(x.e) <= 100
       ELSE x.m <= 100 * Pow10(-x.e)

(* C13: every usage gauge holds a value within [0,100] in every reachable  *)
(* state, and a usage value within [0,100] is written as it is.            *)
C13_UsageWithinRange ==
    /\ \A w \in UsageGauges : InPercentRange(display[w])
    /\ LastDecoded =>
         \A f \in UsageFields \cap DOMAIN LastObject :
             (LastObject[f].t = "Double" /\ InPercentRange(LastObject[f].v)) =>
                 \A w \in FieldOutputs(f) : display[w] = LastObject[f].v

(* C14: after a cycle that decoded a snapshot, the label of every present  *)
(* numeric frequency f >= 0 is the number q/100 nearest to f/1,000,000,    *)
(* written with two decimals and followed by " GHz", for all four fields.  *)
C14_FrequencyLabel ==
    LastDecoded =>
        \A f \in FreqFields \cap DOMAIN LastObject :
            (LastObject[f].t = "Double" /\ LastObject[f].v.m >= 0) =>
                LET v == LastObject[f].v
                    (* f / 10000 = v.m * 10^(v.e - 4), in hundredths *)
                    qs == IF v.e >= 4 THEN {v.m * Pow10(v.e - 4)}
                          ELSE {q \in {v.m \div Pow10(4 - v.e),
                                       (v.m \div Pow10(4 - v.e)) + 1} :
                                   2 * Abs(q * Pow10(4 - v.e) - v.m)
                                       <= Pow10(4 - v.e)}
                IN  \A w \in FieldOutputs(f) :
                      \E q \in qs :
                        display[w] =
                            ToString(q \div 100) \o "." \o
                            ToString((q % 100) \div 10) \o
                            ToString(q % 10) \o " GHz"

C14_Witness ==
    /\ LastDecoded /\ DOMAIN LastObject = Fields
    /\ LastObject["cpu_freq"] = Double(1416, 3)
    /\ display.freqCPU1 = "1.42 GHz"
    /\ display.freqGPU = "1.80 GHz"
    /\ display.freqNPU1 = "0.00 GHz"

(* the fields found in the most recent payload: none unless it decoded to  *)
(* an object                                                               *)
LastPresent == IF LastDecoded THEN DOMAIN LastObject ELSE {}

(* what an output shows for a field reported as zero *)
ZeroOutput(w) ==
    CASE w \in {"freqCPU1", "freqGPU", "freqNPU1", "freqRGA1"} -> "0.00 GHz"
      [] w = "freqTemp" -> "0.0 °C"
      [] w = "barFan" -> 0
      [] OTHER -> Num(0, 0)

(* C15: a cycle whose payload is non-null makes all thirteen writes, and   *)
(* after it the outputs of every field missing from the payload show zero: *)
(* gauge 0, label "0.00 GHz", temperature label "0.0 °C".                  *)
C15_MissingCoercedToZero ==
    /\ [](last.ptr = "buf" =>
            \A f \in Fields \ LastPresent :
                \A w \in FieldOutputs(f) : display[w] = ZeroOutput(w))
    /\ [][(CycleEnds /\ last'.ptr = "buf") =>
            writes' = writes + Len(WriteOrder)]_vars

C15_Witness ==
    /\ calls = 2 /\ Len(stack) = 0 /\ LastDecoded
    /\ LastPresent = ScenarioFields
    /\ shown.barGPU = Num(99, 0) /\ shown.freqGPU = "2400.00 GHz"
    /\ display.barGPU = Num(0, 0) /\ display.freqGPU = "0.00 GHz"
    /\ writes = 26

(* C16: no buffer is ever read after its release, and every buffer the     *)
(* provider returned was copied into a QString while it was still live.    *)
C16_NoReadAfterRelease == staleReads = 0 /\ copies = allocs

C16_Witness ==
    /\ calls = 3 /\ Len(stack) = 0 /\ LastDecoded
    /\ allocs = 3 /\ copies = 3 /\ frees = 3 /\ failed = 1

====
